---- MODULE Spec2Model ----
(***************************************************************************)
(* Prime Analytics - Data Quality dashboard (src/appTestSupabase.py).      *)
(*                                                                         *)
(* Three state machines over disjoint groups of variables:                 *)
(*   Spec      the AI-correction review workflow: render_corrections_tab   *)
(*             and update_correction_status, run by concurrent reviewer    *)
(*             sessions against the tables dq_correction and dq_audit_log; *)
(*   DashSpec  render_dashboard_tab over the three cached loaders;         *)
(*   GlyphSpec get_status_emoji applied to status strings.                 *)
(***************************************************************************)
EXTENDS Integers, Sequences, FiniteSets, TLC

VARIABLES
    \* ---- review workflow ----
    has_client,     \* get_supabase_client() returned a client (SUPABASE_KEY set)
    now,            \* the wall clock, in seconds
    dq_correction,  \* table dq_correction: correction_id -> stored row
    dq_audit_log,   \* table dq_audit_log: the rows inserted, in order
    queue_cache,    \* st.cache_data entry of load_correction_queue()
    page,           \* per session: the rows render_corrections_tab displays
    pc,             \* per session: where its script run stands
    call,           \* per session: arguments of its update_correction_status call
    ret,            \* per session: what that call returned
    ncalls,         \* update_correction_status calls started so far
    \* ---- dashboard ----
    sources,        \* the live tables behind the three dashboard loaders
    dash_cache,     \* st.cache_data entries of the three dashboard loaders
    screen,         \* what the last run of render_dashboard_tab displayed
    dash_pc,        \* "rendered" right after a render, "waiting" otherwise
    \* ---- status decoration ----
    g_status,       \* the argument of get_status_emoji
    g_emoji,        \* its result, "none" before the call
    \* ---- aggregation step ----
    agg_panel,      \* which chart's series is being computed
    agg_columns,    \* the columns of the table loaded for it
    agg_df,         \* its rows, in order
    agg_out,        \* the frame handed to px.bar
    agg_pc,         \* "loaded", "charted", "again" or "raised"
    \* ---- backend calls ----
    api_fn,         \* the function that is called
    api_args,       \* its arguments, or the widgets its run reads
    api_pc,         \* "start", "request" or "done"
    api_log,        \* the backend requests it has issued, in order
    api_ret,        \* what it returned, "none" before
    \* ---- correction card ----
    card_row,       \* the row render_corrections_tab draws a card for
    card,           \* what the card offers
    \* ---- score colours (matching viewer) ----
    sc_score,       \* the argument of get_score_color / get_score_bg_color
    sc_color,       \* the text colour, "none" before the call
    sc_bg,          \* the background colour, "none" before the call
    \* ---- matching viewer ----
    mt_df,          \* df_matching: the rows of the matching workbook
    mt_filter,      \* the value of the model selectbox
    mt_selected,    \* st.session_state.selected_candidate
    \* ---- parsed CVs ----
    lb_df,          \* df_filtered: the rows of the filtered table
    lb_label,       \* the label chosen in the selectbox
    lb_found,       \* candidat_data, or the exception of the lookup
    lb_pc           \* "listed", "selected" or "shown"

envVars == <<has_client, now>>

reviewVars == <<dq_correction, dq_audit_log, queue_cache, page, pc, call, ret, ncalls>>

dashVars == <<sources, dash_cache, screen, dash_pc>>

glyphVars == <<g_status, g_emoji>>

aggVars == <<agg_panel, agg_columns, agg_df, agg_out, agg_pc>>

callVars == <<api_fn, api_args, api_pc, api_log, api_ret>>

cardVars == <<card_row, card>>

colorVars == <<sc_score, sc_color, sc_bg>>

matchVars == <<mt_df, mt_filter, mt_selected>>

labelVars == <<lb_df, lb_label, lb_found, lb_pc>>

vars == <<envVars, reviewVars, dashVars, glyphVars, aggVars, callVars,
          cardVars, colorVars, matchVars, labelVars>>

\* What the steps of one state machine leave alone.
viewerVars == <<callVars, cardVars, colorVars, matchVars, labelVars>>
nonReview == <<dashVars, glyphVars, aggVars, viewerVars>>
nonDash == <<reviewVars, glyphVars, aggVars, viewerVars>>
nonGlyph == <<envVars, reviewVars, dashVars, aggVars, viewerVars>>
nonAgg == <<envVars, reviewVars, dashVars, glyphVars, viewerVars>>
nonCall == <<envVars, reviewVars, dashVars, glyphVars, aggVars, cardVars,
             colorVars, matchVars, labelVars>>
nonCard == <<envVars, reviewVars, dashVars, glyphVars, aggVars, callVars,
             colorVars, matchVars, labelVars>>
nonColor == <<envVars, reviewVars, dashVars, glyphVars, aggVars, callVars,
              cardVars, matchVars, labelVars>>
nonMatch == <<envVars, reviewVars, dashVars, glyphVars, aggVars, callVars,
              cardVars, colorVars, labelVars>>
nonLabel == <<envVars, reviewVars, dashVars, glyphVars, aggVars, callVars,
              cardVars, colorVars, matchVars>>

(***************************************************************************)
(* Bounds of the model.                                                    *)
(***************************************************************************)
MaxTime == 63          \* the clock stops here
TickStep == 31         \* seconds between two observations of the clock
MaxCalls == 2          \* update_correction_status calls per behaviour
MaxRows == 3           \* rows of a table handed to the aggregation step

CorrIds == {41}                     \* correction_id values in dq_correction
Reviewers == {"alice", "bob"}       \* sessions; each one's "Votre identifiant"
TextInputs == {"", "txt"}           \* what a text widget may hold

(***************************************************************************)
(* Values.                                                                 *)
(***************************************************************************)
NULL == "<null>"       \* Python None / SQL NULL

TTL == 60

Statuses == {"pending", "validated", "rejected", "overwritten"}

\* Python truthiness of an optional string: None and "" are falsy.
Truthy(x) == x # NULL /\ x # ""

\* datetime.isoformat(): the timestamp as a string.
isoformat(t) == ToString(t)

NoEntry == [cached |-> FALSE]
NoCall == [correction_id |-> 0]

EmptyDF == {}

(***************************************************************************)
(* st.cache_data(ttl=60) around load_correction_queue.                     *)
(***************************************************************************)
CacheHitBug(entry, t) == entry.cached

\* An entry is served until the clock exceeds fetched_at + ttl.
CacheHit(entry, t) == entry.cached /\ ~(t > entry.fetched_at + TTL)

\* The rows of mv_correction_review_queue: one per correction.
QueueRows ==
    {[correction_id |-> id, decision_status |-> dq_correction[id].decision_status] :
        id \in CorrIds}

\* The body of load_correction_queue: no client -> empty; a raising query
\* -> empty; otherwise the rows returned.
load_correction_queue_body(raises) ==
    IF ~has_client THEN EmptyDF
    ELSE IF raises THEN EmptyDF
    ELSE QueueRows

\* The memoized call: the cached table while the entry is fresh, otherwise
\* the body's result.
load_correction_queue(raises) ==
    IF CacheHit(queue_cache, now) THEN queue_cache.df
    ELSE load_correction_queue_body(raises)

CacheAfterLoad(raises) ==
    IF CacheHit(queue_cache, now) THEN queue_cache
    ELSE [cached |-> TRUE, df |-> load_correction_queue_body(raises),
          fetched_at |-> now]

(***************************************************************************)
(* render_corrections_tab.                                                 *)
(***************************************************************************)
StatusFilters == {"pending", "all", "validated", "rejected"}

\* "Apply filters": the rows of the queue the status selectbox keeps.
ApplyStatusFilter(df, status_filter) ==
    IF status_filter # "all"
    THEN {row \in df : row.decision_status = status_filter}
    ELSE df

\* row.get(key, default) on a row of the table: the default stands in for
\* a column the table does not have.
RowGet(row, key, default) == IF key \in DOMAIN row THEN row[key] ELSE default

\* status = row.get("decision_status", "pending")
CardStatus(row) == RowGet(row, "decision_status", "pending")

\* The rows for which the action buttons are drawn.
HasButtons(rows, id) ==
    \E row \in rows : row.correction_id = id /\ CardStatus(row) = "pending"

\* The status each button passes to update_correction_status.
ButtonStatusBug(btn) ==
    CASE btn = "accept" -> "validated"
      [] btn = "reject" -> "pending"
      [] btn = "modify" -> "overwritten"

ButtonStatus(btn) ==
    CASE btn = "accept" -> "validated"
      [] btn = "reject" -> "rejected"
      [] btn = "modify" -> "overwritten"

\* Accepter, Rejeter, Modifier (its "Valider la modification"), Ignorer.
Buttons == {"accept", "reject", "modify", "skip"}

\* The text widgets of the Modifier popover; the other buttons read none.
WidgetText(btn) == IF btn = "modify" THEN TextInputs ELSE {NULL}

\* The arguments of the call a button makes: Accept and Reject pass neither
\* comment nor final_value; Modify passes the two text widgets.
ButtonCall(btn, id, user, new_value, comment) ==
    [correction_id |-> id,
     status |-> ButtonStatus(btn),
     user |-> user,
     comment |-> IF btn = "modify" THEN comment ELSE NULL,
     final_value |-> IF btn = "modify" THEN new_value ELSE NULL]

(***************************************************************************)
(* update_correction_status.                                               *)
(***************************************************************************)
UpdateKeys(c) ==
    {"decision_status", "decided_by", "decided_at"}
        \cup (IF Truthy(c.comment) THEN {"decision_comment"} ELSE {})
        \cup (IF Truthy(c.final_value) THEN {"final_value"} ELSE {})

\* update_data as built for call c at time t.
update_data(c, t) ==
    [k \in UpdateKeys(c) |->
        CASE k = "decision_status" -> c.status
          [] k = "decided_by" -> c.user
          [] k = "decided_at" -> isoformat(t)
          [] k = "decision_comment" -> c.comment
          [] k = "final_value" -> c.final_value]

\* .update(update_data) on one row: the named columns are overwritten.
ApplyUpdate(row, data) ==
    [k \in DOMAIN row |-> IF k \in DOMAIN data THEN data[k] ELSE row[k]]

\* .eq("correction_id", correction_id): the rows the update touches.
UpdateMatches(id, c) == id = c.correction_id

\* The row inserted into dq_audit_log.
AuditRow(c) ==
    [entity_type |-> "correction",
     entity_id |-> c.correction_id,
     action |-> IF c.status = "validated" THEN "validate" ELSE "reject",
     previous_status |-> "pending",
     new_status |-> c.status,
     user_id |-> c.user,
     comment |-> c.comment]

PendingRow ==
    [decision_status |-> "pending", decided_by |-> NULL, decided_at |-> NULL,
     decision_comment |-> NULL, final_value |-> NULL]

(***************************************************************************)
(* The review workflow's initial state and steps.                          *)
(***************************************************************************)
EnvInit ==
    /\ has_client \in BOOLEAN
    /\ now = 0

ReviewStart ==
    /\ dq_correction = [id \in CorrIds |-> PendingRow]
    /\ dq_audit_log = <<>>
    /\ queue_cache = NoEntry
    /\ page = [r \in Reviewers |-> EmptyDF]
    /\ pc = [r \in Reviewers |-> "idle"]
    /\ call = [r \in Reviewers |-> NoCall]
    /\ ret = [r \in Reviewers |-> "none"]
    /\ ncalls = 0

ReviewInit == EnvInit /\ ReviewStart

\* The review workflow at rest, for the other state machines.
ReviewIdle == ReviewStart

\* The dashboard at rest, for the other state machines.
DashIdle ==
    /\ sources = <<>>
    /\ dash_cache = <<>>
    /\ screen = <<>>
    /\ dash_pc = "waiting"

\* The status decoration at rest, for the other state machines.
GlyphIdle ==
    /\ g_status = <<>>
    /\ g_emoji = "none"

\* The aggregation step at rest, for the other state machines.
AggIdle ==
    /\ agg_panel = "none"
    /\ agg_columns = {}
    /\ agg_df = <<>>
    /\ agg_out = <<>>
    /\ agg_pc = "idle"

\* The backend calls at rest, for the other state machines.
CallIdle ==
    /\ api_fn = "none"
    /\ api_args = <<>>
    /\ api_pc = "idle"
    /\ api_log = <<>>
    /\ api_ret = "none"

CardIdle ==
    /\ card_row = <<>>
    /\ card = <<>>

ColorIdle ==
    /\ sc_score = 0
    /\ sc_color = "none"
    /\ sc_bg = "none"

MatchIdle ==
    /\ mt_df = {}
    /\ mt_filter = "none"
    /\ mt_selected = <<>>

LabelIdle ==
    /\ lb_df = <<>>
    /\ lb_label = <<>>
    /\ lb_found = <<>>
    /\ lb_pc = "idle"

Tick ==
    /\ now + TickStep <= MaxTime
    /\ now' = now + TickStep
    /\ UNCHANGED <<has_client, dq_correction, dq_audit_log, queue_cache,
                   page, pc, call, ret, ncalls>>
    /\ UNCHANGED nonReview

\* A script run of session r in which no button fires: on a widget change,
\* or the run st.rerun() starts after a decision.
Render(r) ==
    /\ pc[r] \in {"idle", "rerun"}
    /\ \E raises \in BOOLEAN, status_filter \in StatusFilters :
        /\ queue_cache' = CacheAfterLoad(raises)
        /\ page' = [page EXCEPT ![r] =
                        ApplyStatusFilter(load_correction_queue(raises), status_filter)]
    /\ pc' = [pc EXCEPT ![r] = "idle"]
    /\ UNCHANGED <<has_client, now, dq_correction, dq_audit_log, call, ret, ncalls>>
    /\ UNCHANGED nonReview

\* Session r clicks a button drawn for correction id.  The script runs again
\* from the top: it loads the queue, and the button fires if it is drawn
\* again in this run.  Ignorer has no handler.  The other three call
\* update_correction_status, which returns False at once without a client
\* and otherwise stands before its update.
Click(r, id, btn) ==
    /\ pc[r] = "idle"
    /\ ncalls < MaxCalls
    /\ HasButtons(page[r], id)
    /\ \E raises \in BOOLEAN, status_filter \in StatusFilters,
          new_value \in WidgetText(btn), comment \in WidgetText(btn) :
        LET df == load_correction_queue(raises)
            rows == ApplyStatusFilter(df, status_filter)
        IN  /\ queue_cache' = CacheAfterLoad(raises)
            /\ page' = [page EXCEPT ![r] = rows]
            /\ IF HasButtons(rows, id) /\ btn # "skip"
               THEN /\ call' = [call EXCEPT ![r] =
                                    ButtonCall(btn, id, r, new_value, comment)]
                    /\ ncalls' = ncalls + 1
                    /\ IF has_client
                       THEN /\ pc' = [pc EXCEPT ![r] = "update"]
                            /\ ret' = [ret EXCEPT ![r] = "none"]
                       ELSE /\ ret' = [ret EXCEPT ![r] = "False"]
                            /\ UNCHANGED pc
               ELSE UNCHANGED <<pc, call, ret, ncalls>>
    /\ UNCHANGED <<has_client, now, dq_correction, dq_audit_log>>
    /\ UNCHANGED nonReview

\* supabase.table("dq_correction").update(update_data).eq(...).execute()
Update(r) ==
    /\ pc[r] = "update"
    /\ \E raises \in BOOLEAN :
        IF raises
        THEN /\ ret' = [ret EXCEPT ![r] = "False"]
             /\ pc' = [pc EXCEPT ![r] = "idle"]
             /\ UNCHANGED dq_correction
        ELSE /\ dq_correction' =
                    [id \in CorrIds |->
                        IF UpdateMatches(id, call[r])
                        THEN ApplyUpdate(dq_correction[id], update_data(call[r], now))
                        ELSE dq_correction[id]]
             /\ pc' = [pc EXCEPT ![r] = "audit"]
             /\ UNCHANGED ret
    /\ UNCHANGED <<has_client, now, dq_audit_log, queue_cache, page, call, ncalls>>
    /\ UNCHANGED nonReview

\* The same with the two writes in one transaction: a failing insert takes
\* the update back.
AuditRollback(r) ==
    /\ pc[r] = "audit"
    /\ \E raises \in BOOLEAN :
        IF raises
        THEN /\ ret' = [ret EXCEPT ![r] = "False"]
             /\ pc' = [pc EXCEPT ![r] = "idle"]
             /\ dq_correction' =
                    [dq_correction EXCEPT ![call[r].correction_id] = PendingRow]
             /\ UNCHANGED <<dq_audit_log, queue_cache>>
        ELSE /\ dq_audit_log' = Append(dq_audit_log, AuditRow(call[r]))
             /\ ret' = [ret EXCEPT ![r] = "True"]
             /\ queue_cache' = NoEntry
             /\ pc' = [pc EXCEPT ![r] = "rerun"]
             /\ UNCHANGED dq_correction
    /\ UNCHANGED <<has_client, now, page, call, ncalls>>
    /\ UNCHANGED nonReview

\* The same with the insert outside the try block's verdict: the call
\* returns True whether or not the insert went through.
AuditIgnoreError(r) ==
    /\ pc[r] = "audit"
    /\ \E raises \in BOOLEAN :
        /\ dq_audit_log' = IF raises THEN dq_audit_log
                           ELSE Append(dq_audit_log, AuditRow(call[r]))
        /\ ret' = [ret EXCEPT ![r] = "True"]
        /\ queue_cache' = NoEntry
        /\ pc' = [pc EXCEPT ![r] = "rerun"]
    /\ UNCHANGED <<has_client, now, dq_correction, page, call, ncalls>>
    /\ UNCHANGED nonReview

\* supabase.table("dq_audit_log").insert({...}).execute(); return True; and
\* in the caller st.cache_data.clear(); st.rerun().
Audit(r) ==
    /\ pc[r] = "audit"
    /\ \E raises \in BOOLEAN :
        IF raises
        THEN /\ ret' = [ret EXCEPT ![r] = "False"]
             /\ pc' = [pc EXCEPT ![r] = "idle"]
             /\ UNCHANGED <<dq_audit_log, queue_cache>>
        ELSE /\ dq_audit_log' = Append(dq_audit_log, AuditRow(call[r]))
             /\ ret' = [ret EXCEPT ![r] = "True"]
             /\ queue_cache' = NoEntry
             /\ pc' = [pc EXCEPT ![r] = "rerun"]
    /\ UNCHANGED <<has_client, now, dq_correction, page, call, ncalls>>
    /\ UNCHANGED nonReview

ReviewNext ==
    \/ Tick
    \/ \E r \in Reviewers : Render(r)
    \/ \E r \in Reviewers, id \in CorrIds, btn \in Buttons : Click(r, id, btn)
    \/ \E r \in Reviewers : Update(r)
    \/ \E r \in Reviewers : Audit(r)

Init ==
    /\ ReviewInit
    /\ DashIdle
    /\ GlyphIdle
    /\ AggIdle
    /\ CallIdle
    /\ CardIdle
    /\ ColorIdle
    /\ MatchIdle
    /\ LabelIdle

Next == ReviewNext

Spec == Init /\ [][Next]_vars

(***************************************************************************)
(* Claims about the review workflow (checked under Spec).                  *)
(***************************************************************************)

\* The last call of session r has returned.
Returned(r) == call[r] # NoCall /\ ret[r] # "none"

\* C1: when two reviewers transition the same pending correction, exactly
\* one transition succeeds: two sessions' calls on the same correction_id
\* never both return True.
C1_ExactlyOneSucceeds ==
    \A r1, r2 \in Reviewers :
        (r1 # r2 /\ Returned(r1) /\ Returned(r2)
            /\ call[r1].correction_id = call[r2].correction_id)
        => ~(ret[r1] = "True" /\ ret[r2] = "True")

\* C2: a transition requested on a correction whose stored decision_status
\* is not pending is rejected at write time: the update step leaves the
\* stored table unchanged and the call returns False.
C2_NonPendingRejected ==
    [][\A r \in Reviewers :
        (pc[r] = "update" /\ pc'[r] # "update"
            /\ dq_correction[call[r].correction_id].decision_status # "pending")
        => (dq_correction' = dq_correction /\ ret'[r] = "False")]_vars

\* C3: the stored decision_status is always one of pending, validated,
\* rejected, overwritten, and a correction that has left pending never
\* returns to pending, whatever the reviewers do.
C3_TerminalTransitions ==
    /\ [](\A id \in CorrIds : dq_correction[id].decision_status \in Statuses)
    /\ [][\A id \in CorrIds :
            dq_correction[id].decision_status # "pending"
            => dq_correction'[id].decision_status # "pending"]_vars

\* C3 witness: a correction that was decided, then decided again by a later
\* reviewer action, and is not pending.
C3_Witness ==
    \E id \in CorrIds :
        /\ dq_correction[id].decision_status \in Statuses \ {"pending"}
        /\ \E i, j \in 1..Len(dq_audit_log) :
            /\ i < j
            /\ dq_audit_log[i].entity_id = id
            /\ dq_audit_log[j].entity_id = id
            /\ dq_audit_log[i].new_status # dq_audit_log[j].new_status

\* C4: the update of a successful transition stores the acting user, the
\* timestamp and the target status, and writes final_value if and only if
\* the target status is overwritten.
C4_TransitionRecord ==
    [][\A r \in Reviewers :
        (pc[r] = "update" /\ pc'[r] = "audit")
        => LET c == call[r]
               row == dq_correction'[c.correction_id]
           IN  /\ row.decision_status = c.status
               /\ row.decided_by = c.user
               /\ row.decided_at = isoformat(now)
               /\ ("final_value" \in DOMAIN update_data(c, now))
                    <=> (c.status = "overwritten")]_vars

\* No update_correction_status call is between its first and last step.
NoCallInFlight == \A r \in Reviewers : pc[r] \notin {"update", "audit"}

\* A script run of session r that draws its page anew.
RenderStep(r) ==
    /\ pc[r] \in {"idle", "rerun"}
    /\ pc'[r] \in {"idle", "update"}
    /\ (page'[r] # page[r] \/ pc'[r] # pc[r])

\* C19: once a reviewer action has changed the stored decision_status of a
\* correction, the cache is cleared before the next render, so that every
\* later render of the corrections tab shows the correction with its stored
\* status and not as pending.
C19_CacheClearedAfterDecision ==
    [][\A r \in Reviewers :
        (RenderStep(r) /\ NoCallInFlight)
        => \A row \in page'[r] :
            dq_correction[row.correction_id].decision_status # "pending"
            => row.decision_status =
                    dq_correction[row.correction_id].decision_status]_vars

\* C20: the update and the audit-log insert are not atomic: when the insert
\* fails after the update, the call returns False, the updated correction
\* stays as written (no rollback) and the audit log gets no entry.
C20_NoRollback ==
    [][\A r \in Reviewers :
        (pc[r] = "audit" /\ pc'[r] = "idle")
        => /\ ret'[r] = "False"
           /\ dq_correction' = dq_correction
           /\ dq_correction'[call[r].correction_id].decision_status # "pending"
           /\ dq_audit_log' = dq_audit_log]_vars

\* C20 witness: a call has returned False, its update is stored and the
\* audit log is empty.
C20_Witness ==
    \E r \in Reviewers :
        /\ Returned(r)
        /\ ret[r] = "False"
        /\ pc[r] = "idle"
        /\ dq_correction[call[r].correction_id].decision_status = call[r].status
        /\ dq_correction[call[r].correction_id].decided_by = r
        /\ dq_audit_log = <<>>

\* C23: update_correction_status returns True only if both writes went
\* through: the step that returns True is the one that appends the call's
\* row to dq_audit_log, it is taken only after the call's update (the call
\* is past it, at the insert), and the step that passes the update has
\* stored the call's status in dq_correction.
C23_TrueOnlyAfterBothWrites ==
    [][\A r \in Reviewers :
        /\ (ret'[r] = "True" /\ ret[r] # "True")
           => /\ pc[r] = "audit"
              /\ dq_audit_log' = Append(dq_audit_log, AuditRow(call[r]))
        /\ (pc'[r] = "audit" /\ pc[r] # "audit")
           => /\ pc[r] = "update"
              /\ dq_correction'[call[r].correction_id].decision_status
                    = call[r].status
              /\ dq_correction'[call[r].correction_id].decided_by = r]_vars

\* C23 witness: one call has returned True with its row in the audit log,
\* and another has returned False although its update is what is stored.
C23_Witness ==
    \E r, q \in Reviewers :
        /\ ret[r] = "True"
        /\ dq_audit_log = <<AuditRow(call[r])>>
        /\ ret[q] = "False"
        /\ Returned(q)
        /\ dq_correction[call[q].correction_id].decided_by = q
        /\ dq_correction[call[q].correction_id].decision_status = call[q].status

\* C24: every audit-log entry describes the transition that happened. The
\* entry of a call is AuditRow(call[r]), fixed when the call starts: at the
\* call's update its previous_status is the status the correction has in
\* storage and its new_status is the status the update stores; the entry
\* appended to dq_audit_log is that row, and its action names the decision
\* (validate for validated, reject for rejected).
C24_AuditDescribesTransition ==
    [][\A r \in Reviewers :
        /\ (pc[r] = "update" /\ pc'[r] = "audit")
           => /\ AuditRow(call[r]).previous_status
                    = dq_correction[call[r].correction_id].decision_status
              /\ AuditRow(call[r]).new_status
                    = dq_correction'[call[r].correction_id].decision_status
        /\ (pc[r] = "audit" /\ pc'[r] = "rerun")
           => LET entry == dq_audit_log'[Len(dq_audit_log')]
              IN  /\ entry = AuditRow(call[r])
                  /\ entry.new_status = "validated" => entry.action = "validate"
                  /\ entry.new_status = "rejected" => entry.action = "reject"]_vars

(***************************************************************************)
(* The dashboard: render_dashboard_tab over load_dashboard_summary,        *)
(* load_source_health and load_correction_queue.                           *)
(*                                                                         *)
(* A table is kept by its shape: whether it has rows, which columns its    *)
(* rows carry, and (for the summary) whether some row has score < 99.      *)
(***************************************************************************)
Shape(cols, low) == [empty |-> FALSE, columns |-> cols, low |-> low]

\* pd.DataFrame() and pd.DataFrame([]): no rows, no columns.
EmptyTable == [empty |-> TRUE, columns |-> {}, low |-> FALSE]

\* The shapes mv_dashboard_summary takes in the model: empty; complete, with
\* and without a low score; without score and rule_type_name; without score;
\* without status.
SummaryShapes ==
    {EmptyTable,
     Shape({"score", "rule_type_name", "status", "source_name", "source_id",
            "open_issues"}, TRUE),
     Shape({"score", "rule_type_name", "status", "source_name"}, FALSE),
     Shape({"status", "source_name"}, FALSE),
     Shape({"rule_type_name", "status"}, FALSE),
     Shape({"score", "rule_type_name", "source_name"}, TRUE)}

\* mv_source_health_score: empty; complete; without business_domain;
\* without overall_score.
HealthShapes ==
    {EmptyTable,
     Shape({"business_domain", "overall_score"}, FALSE),
     Shape({"overall_score"}, FALSE),
     Shape({"business_domain"}, FALSE)}

\* mv_correction_review_queue: empty; with decision_status; without it.
QueueShapes ==
    {EmptyTable,
     Shape({"correction_id", "decision_status"}, FALSE),
     Shape({"correction_id"}, FALSE)}

Loaders == {"summary", "health", "queue"}

SourceStates ==
    [summary : SummaryShapes, health : HealthShapes, queue : QueueShapes]

\* The body of a loader: no client -> empty table; a raising query -> empty
\* table; otherwise the table's rows.
LoaderBody(l, raises) ==
    IF ~has_client THEN EmptyTable
    ELSE IF raises THEN EmptyTable
    ELSE sources[l]

\* The memoized loader.
CachedLoad(l, raises) ==
    IF CacheHit(dash_cache[l], now) THEN dash_cache[l].df
    ELSE LoaderBody(l, raises)

EntryAfterLoad(l, raises) ==
    IF CacheHit(dash_cache[l], now) THEN dash_cache[l]
    ELSE [cached |-> TRUE, df |-> LoaderBody(l, raises), fetched_at |-> now]

\* Where the rows of a panel come from.
LiveRows == {"live"}      \* computed from a loaded table
DemoRows == {"demo"}      \* a list written in the code
NoRows == {}

Panels == {"domain", "rule", "attention"}

\* The four KPI cards, and for each the (table, column) pairs the code
\* probes for it, in the order it probes them.
KpiMetrics ==
    {"overall_score", "total_sources", "open_issues", "pending_corrections"}

KpiCandidates(m) ==
    CASE m = "overall_score" -> <<[table |-> "summary", column |-> "score"]>>
      [] m = "total_sources" -> <<[table |-> "summary", column |-> "source_id"]>>
      [] m = "open_issues" -> <<[table |-> "summary", column |-> "open_issues"]>>
      [] m = "pending_corrections" ->
            <<[table |-> "queue", column |-> "decision_status"]>>

\* The pending count taken from df_corrections whenever it has rows.
KpiSourceBug(m, dfs) ==
    CASE m = "overall_score" ->
            IF "score" \in dfs.summary.columns THEN "summary" ELSE "zero"
      [] m = "total_sources" ->
            IF "source_id" \in dfs.summary.columns THEN "summary" ELSE "zero"
      [] m = "open_issues" ->
            IF "open_issues" \in dfs.summary.columns THEN "summary" ELSE "zero"
      [] m = "pending_corrections" ->
            IF ~dfs.queue.empty THEN "queue" ELSE "zero"

\* Where the value of a KPI card comes from: the table it is computed from,
\* or "zero" for the literal 0 of the else branch.
KpiSource(m, dfs) ==
    CASE m = "overall_score" ->
            IF "score" \in dfs.summary.columns THEN "summary" ELSE "zero"
      [] m = "total_sources" ->
            IF "source_id" \in dfs.summary.columns THEN "summary" ELSE "zero"
      [] m = "open_issues" ->
            IF "open_issues" \in dfs.summary.columns THEN "summary" ELSE "zero"
      [] m = "pending_corrections" ->
            IF ~dfs.queue.empty /\ "decision_status" \in dfs.queue.columns
            THEN "queue"
            ELSE "zero"

NoKpis == [m \in KpiMetrics |-> "none"]

\* "Sante par Domaine".
DomainLive(df_health) ==
    ~df_health.empty /\ "business_domain" \in df_health.columns

DomainSeriesBug(df_health) ==
    IF DomainLive(df_health) THEN LiveRows \cup DemoRows ELSE DemoRows

DomainSeries(df_health) ==
    IF DomainLive(df_health) THEN LiveRows ELSE DemoRows

\* groupby("business_domain")["overall_score"]: KeyError without the column.
DomainRaises(df_health) ==
    DomainLive(df_health) /\ "overall_score" \notin df_health.columns

\* "Qualite par Type de Regle".
RuleLive(df_summary) ==
    ~df_summary.empty /\ "rule_type_name" \in df_summary.columns

RuleSeries(df_summary) ==
    IF RuleLive(df_summary) THEN LiveRows ELSE DemoRows

\* groupby("rule_type_name")["score"]: KeyError without the column.
RuleRaises(df_summary) ==
    RuleLive(df_summary) /\ "score" \notin df_summary.columns

\* "Attention Requise".
AttentionLive(df_summary) ==
    ~df_summary.empty /\ "score" \in df_summary.columns

display_cols ==
    {"source_name", "table_name", "field_name", "rule_name", "score", "status",
     "open_issues"}

available_cols(df_summary) == display_cols \cap df_summary.columns

\* The table is drawn when some score is below 99 and a display column is there.
AttentionRows(df_summary) ==
    IF AttentionLive(df_summary)
    THEN IF df_summary.low /\ available_cols(df_summary) # {}
         THEN LiveRows
         ELSE NoRows
    ELSE DemoRows

\* display_df["status"]: KeyError when status is not among available_cols.
AttentionRaises(df_summary) ==
    /\ AttentionLive(df_summary)
    /\ df_summary.low
    /\ available_cols(df_summary) # {}
    /\ "status" \notin available_cols(df_summary)

\* st.success when no score is below 99.
AttentionBanners(df_summary) ==
    IF AttentionLive(df_summary) /\ ~df_summary.low THEN {"all_green"} ELSE {}

NoScreen ==
    [outcome |-> "none", input |-> <<>>, kpi |-> NoRows, kpis |-> NoKpis,
     domain |-> NoRows, rule |-> NoRows, attention |-> NoRows, banners |-> {}]

\* One run of render_dashboard_tab on the three loaded tables dfs: what it
\* displays, top to bottom, up to its return or the exception that ends it.
render_dashboard_tab(dfs) ==
    LET s0 == [NoScreen EXCEPT !.outcome = "rendered", !.input = dfs]
        s1 == [s0 EXCEPT !.kpi = LiveRows,
                         !.kpis = [m \in KpiMetrics |-> KpiSource(m, dfs)]]
        s2 == [s1 EXCEPT !.domain = DomainSeries(dfs.health)]
        s3 == [s2 EXCEPT !.rule = RuleSeries(dfs.summary)]
    IN  IF dfs.summary.empty
        THEN [s0 EXCEPT !.outcome = "warning", !.banners = {"no_data"}]
        ELSE IF DomainRaises(dfs.health)
        THEN [s1 EXCEPT !.outcome = "raised"]
        ELSE IF RuleRaises(dfs.summary)
        THEN [s2 EXCEPT !.outcome = "raised"]
        ELSE IF AttentionRaises(dfs.summary)
        THEN [s3 EXCEPT !.outcome = "raised"]
        ELSE [s3 EXCEPT !.attention = AttentionRows(dfs.summary),
                        !.banners = AttentionBanners(dfs.summary)]

(***************************************************************************)
(* The dashboard's initial state and steps.                                *)
(***************************************************************************)
DashInit ==
    /\ EnvInit
    /\ sources \in SourceStates
    /\ dash_cache = [l \in Loaders |-> NoEntry]
    /\ screen = NoScreen
    /\ dash_pc = "waiting"
    /\ ReviewIdle
    /\ GlyphIdle
    /\ AggIdle
    /\ CallIdle
    /\ CardIdle
    /\ ColorIdle
    /\ MatchIdle
    /\ LabelIdle

\* A render request: the three loads, then the panels.
DashRender ==
    /\ \E raises \in [Loaders -> BOOLEAN] :
        /\ dash_cache' = [l \in Loaders |-> EntryAfterLoad(l, raises[l])]
        /\ screen' = render_dashboard_tab([l \in Loaders |-> CachedLoad(l, raises[l])])
    /\ dash_pc' = "rendered"
    /\ UNCHANGED <<envVars, sources>>
    /\ UNCHANGED nonDash

\* The backend's tables change between two requests.
SourceChange ==
    /\ \E s \in SourceStates : s # sources /\ sources' = s
    /\ dash_pc' = "waiting"
    /\ UNCHANGED <<envVars, dash_cache, screen>>
    /\ UNCHANGED nonDash

DashTick ==
    /\ now + TickStep <= MaxTime
    /\ now' = now + TickStep
    /\ dash_pc' = "waiting"
    /\ UNCHANGED <<has_client, sources, dash_cache, screen>>
    /\ UNCHANGED nonDash

\* st.cache_data.clear(), by a correction decision or the tables tab.
ClearCache ==
    /\ dash_cache' = [l \in Loaders |-> NoEntry]
    /\ dash_pc' = "waiting"
    /\ UNCHANGED <<envVars, sources, screen>>
    /\ UNCHANGED nonDash

DashNext ==
    \/ DashRender
    \/ SourceChange
    \/ DashTick
    \/ ClearCache

DashSpec == DashInit /\ [][DashNext]_vars

(***************************************************************************)
(* Claims about the dashboard (checked under DashSpec).                    *)
(***************************************************************************)

\* The loaded tables a panel is computed from.
PanelSources(p) ==
    CASE p = "domain" -> {"health"}
      [] p = "rule" -> {"summary"}
      [] p = "attention" -> {"summary"}

ShowsDemo(p) == "demo" \in screen[p]

\* C5: a panel uses demo data if and only if every source table relevant to
\* it has zero rows or is unavailable; one non-empty source makes it false.
C5_DemoIffAllEmpty ==
    screen.outcome # "none"
    => \A p \in Panels :
        ShowsDemo(p) <=> (\A l \in PanelSources(p) : screen.input[l].empty)

\* C6: the dashboard never renders empty: when every loaded table has zero
\* rows (or its fetch failed), every panel displays its demonstration data.
C6_NeverRendersEmpty ==
    (screen.outcome # "none" /\ \A l \in Loaders : screen.input[l].empty)
    => \A p \in Panels : screen[p] = DemoRows

\* C7: whenever a panel displays demonstration data, the same render shows
\* a "showing demo data" indicator.
C7_DemoIndicator ==
    (\E p \in Panels : ShowsDemo(p)) => "demo_data" \in screen.banners

\* The demo/live choice of a render: the origin of each panel's rows.
ChoiceOf(scr) == [p \in Panels |-> scr[p]]

\* C8 as stated: the choice of a render reflects the sources' state at that
\* render, i.e. it is the choice a load of the live tables (each either
\* answering or failing) gives.
C8_ReflectsSourceAtRender ==
    dash_pc = "rendered"
    => \E raises \in [Loaders -> BOOLEAN] :
        ChoiceOf(screen) =
            ChoiceOf(render_dashboard_tab([l \in Loaders |-> LoaderBody(l, raises[l])]))

\* C8 as amended: every render evaluates the choice anew on the tables the
\* loaders return at that render; each of these is at most TTL seconds old,
\* and when a loader's entry is absent or older than TTL the table is the
\* live source's state at that render (empty if the fetch fails).
C8_ReflectsLoadedTables ==
    /\ [](dash_pc = "rendered"
            => /\ screen = render_dashboard_tab(screen.input)
               /\ \A l \in Loaders :
                    /\ dash_cache[l].cached
                    /\ now <= dash_cache[l].fetched_at + TTL
                    /\ screen.input[l] = dash_cache[l].df)
    /\ [][dash_pc' = "rendered"
            => \A l \in Loaders :
                IF dash_cache[l].cached /\ now <= dash_cache[l].fetched_at + TTL
                THEN screen'.input[l] = dash_cache[l].df
                ELSE screen'.input[l] \in {sources[l], EmptyTable}]_vars

\* C8 witness: a render served from entries fetched at an earlier time while
\* a live table has changed since.
C8_Witness ==
    /\ dash_pc = "rendered"
    /\ has_client
    /\ \E l \in Loaders :
        /\ dash_cache[l].fetched_at < now
        /\ screen.input[l] # sources[l]
        /\ screen.input[l].empty # sources[l].empty

\* C9: within one panel the rows are all live or all demonstration rows.
C9_NoMixing ==
    \A p \in Panels : ~({"live", "demo"} \subseteq screen[p])

\* C9 witness: a render whose domain panel shows demonstration rows beside a
\* rule panel that shows live rows.
C9_Witness ==
    /\ screen.outcome = "rendered"
    /\ screen.domain = DemoRows
    /\ screen.rule = LiveRows
    /\ screen.attention = LiveRows

\* C13: a loaded table that has rows but lacks a key or value column is
\* skipped for the panel: whatever columns df_summary and df_health carry,
\* render_dashboard_tab runs to its end without raising.
C13_SchemaMismatchSkipped ==
    screen.outcome # "raised"

\* A candidate qualifies when its table has rows and carries its column.
Qualifies(c, dfs) ==
    ~dfs[c.table].empty /\ c.column \in dfs[c.table].columns

\* The first qualifying candidate of a list, "zero" when there is none.
FirstQualifying(cands, dfs) ==
    IF \E i \in 1..Len(cands) : Qualifies(cands[i], dfs)
    THEN LET i == CHOOSE i \in 1..Len(cands) :
                    /\ Qualifies(cands[i], dfs)
                    /\ \A j \in 1..(i - 1) : ~Qualifies(cands[j], dfs)
         IN  cands[i].table
    ELSE "zero"

None == [kind |-> "none"]
Str(chars) == [kind |-> "str", chars |-> chars]

lowercase ==
    <<"a", "b", "c", "d", "e", "f", "g", "h", "i", "j", "k", "l", "m",
      "n", "o", "p", "q", "r", "s", "t", "u", "v", "w", "x", "y", "z">>

uppercase ==
    <<"A", "B", "C", "D", "E", "F", "G", "H", "I", "J", "K", "L", "M",
      "N", "O", "P", "Q", "R", "S", "T", "U", "V", "W", "X", "Y", "Z">>

LetterIndex(alphabet, c) == CHOOSE i \in 1..Len(alphabet) : alphabet[i] = c

IsIn(alphabet, c) == \E i \in 1..Len(alphabet) : alphabet[i] = c

\* str.upper() and str.lower(), character by character.
UpperChar(c) == IF IsIn(lowercase, c) THEN uppercase[LetterIndex(lowercase, c)] ELSE c

LowerChar(c) == IF IsIn(uppercase, c) THEN lowercase[LetterIndex(uppercase, c)] ELSE c

lower(chars) == [i \in 1..Len(chars) |-> LowerChar(chars[i])]

\* status_map: key -> emoji.
status_map ==
    {<<<<"o", "k">>, "U+1F7E2">>,
     <<<<"w", "a", "r", "n", "i", "n", "g">>, "U+1F7E1">>,
     <<<<"c", "r", "i", "t", "i", "c", "a", "l">>, "U+1F534">>,
     <<<<"p", "e", "n", "d", "i", "n", "g">>, "U+23F3">>,
     <<<<"v", "a", "l", "i", "d", "a", "t", "e", "d">>, "U+2705">>,
     <<<<"r", "e", "j", "e", "c", "t", "e", "d">>, "U+274C">>,
     <<<<"o", "p", "e", "n">>, "U+1F535">>,
     <<<<"e", "s", "c", "a", "l", "a", "t", "e", "d">>, "U+1F6A8">>}

DefaultEmoji == "U+26AA"

\* dict.get(key, default)
DictGet(map, key, default) ==
    IF \E e \in map : key = Str(e[1])
    THEN (CHOOSE e \in map : key = Str(e[1]))[2]
    ELSE default

\* status_map[status] instead of status_map.get: KeyError on a missing key.
GetItemBug(status) == DictGet(status_map, status, "KeyError")

get_status_emoji(status) == DictGet(status_map, status, DefaultEmoji)

\* The status vocabulary of the data model, and a string outside it.
Vocabulary ==
    {<<"o", "k">>, <<"w", "a", "r", "n", "i", "n", "g">>, <<"c", "r", "i", "t", "i", "c", "a", "l">>, <<"p", "e", "n", "d", "i", "n", "g">>, <<"v", "a", "l", "i", "d", "a", "t", "e", "d">>, <<"r", "e", "j", "e", "c", "t", "e", "d">>, <<"o", "p", "e", "n">>, <<"e", "s", "c", "a", "l", "a", "t", "e", "d">>,
     <<"r", "e", "s", "o", "l", "v", "e", "d">>}

Bogus == <<"b", "o", "g", "u", "s">>

\* Every spelling of a word in upper and lower case.
CaseVariants(word) ==
    {[i \in 1..Len(word) |-> IF i \in U THEN UpperChar(word[i]) ELSE word[i]] :
        U \in SUBSET (1..Len(word))}

StatusInputs ==
    {None} \cup {Str(v) : v \in UNION {CaseVariants(word) : word \in Vocabulary \cup {Bogus}}}

GlyphInit ==
    /\ g_status \in StatusInputs
    /\ g_emoji = "none"
    /\ EnvInit
    /\ ReviewIdle
    /\ DashIdle
    /\ AggIdle
    /\ CallIdle
    /\ CardIdle
    /\ ColorIdle
    /\ MatchIdle
    /\ LabelIdle

Decorate ==
    /\ g_emoji = "none"
    /\ g_emoji' = get_status_emoji(g_status)
    /\ UNCHANGED g_status
    /\ UNCHANGED nonGlyph

GlyphNext == Decorate

GlyphSpec == GlyphInit /\ [][GlyphNext]_vars

(***************************************************************************)
(* Claims about the status decoration (checked under GlyphSpec).           *)
(***************************************************************************)

\* C10: the lookup matches the vocabulary case-insensitively: a string that
\* is a vocabulary word up to case gets the emoji of that word.
C10_CaseInsensitive ==
    (g_emoji # "none" /\ g_status.kind = "str" /\ lower(g_status.chars) \in Vocabulary)
    => g_emoji = get_status_emoji(Str(lower(g_status.chars)))

\* The emojis status_map holds.
MappedEmojis == {e[2] : e \in status_map}

\* A status the vocabulary does not hold in any spelling, or no status.
Unrecognized(status) ==
    status = None \/ (status.kind = "str" /\ lower(status.chars) \notin Vocabulary)

\* C11: the lookup is total: it gives an emoji for every input, and None and
\* every string outside the vocabulary get the one default emoji.
C11_TotalLookup ==
    g_emoji # "none"
    => /\ g_emoji \in MappedEmojis \cup {DefaultEmoji}
       /\ Unrecognized(g_status) => g_emoji = DefaultEmoji

\* C11 witness: the lookup has answered None with the default emoji.
C11_Witness ==
    /\ g_status = None
    /\ g_emoji = DefaultEmoji

\* C12: each of the nine vocabulary words has its own entry: none of them
\* gets the default emoji, and validated gets the check mark.
C12_VocabularyMapped ==
    (g_emoji # "none" /\ g_status.kind = "str" /\ g_status.chars \in Vocabulary)
    => /\ g_emoji # DefaultEmoji
       /\ g_status.chars = <<"v", "a", "l", "i", "d", "a", "t", "e", "d">>
            => g_emoji = "U+2705"

(***************************************************************************)
(* The aggregation step: groupby(key)[value].mean() and sort_values, as    *)
(* render_dashboard_tab applies them for the domain and rule charts and    *)
(* render_issues_tab for the per-source chart.                             *)
(*                                                                         *)
(* A number is a fraction in lowest terms; NaN (pandas' null) is 0/0.      *)
(* A row is [key, value, issues]: the grouping column, the score column    *)
(* and, for the per-source chart, open_issues.                             *)
(***************************************************************************)
RECURSIVE GCD(_, _)
GCD(a, b) == IF b = 0 THEN a ELSE GCD(b, a % b)

Q(n, d) == LET g == GCD(n, d) IN [num |-> n \div g, den |-> d \div g]

Num(n) == [num |-> n, den |-> 1]

NaN == [num |-> 0, den |-> 0]

isna(v) == v.den = 0

QAdd(a, b) == Q(a.num * b.den + b.num * a.den, a.den * b.den)

\* a <= b on floats: False when either is NaN.
QLeq(a, b) == ~isna(a) /\ ~isna(b) /\ a.num * b.den <= b.num * a.den

AggPanels == {"domain", "rule", "source"}

KeyCol(panel) ==
    CASE panel = "domain" -> "business_domain"
      [] panel = "rule" -> "rule_type_name"
      [] panel = "source" -> "source_name"

ValueCol(panel) ==
    CASE panel = "domain" -> "overall_score"
      [] panel = "rule" -> "score"
      [] panel = "source" -> "score"

\* The column sets that pass the test guarding each aggregation: the domain
\* and rule charts test the key column only, the per-source chart tests
\* source_name and score.
PanelColumns(panel) ==
    CASE panel = "domain" -> {{"business_domain", "overall_score"}, {"business_domain"}}
      [] panel = "rule" -> {{"rule_type_name", "score"}, {"rule_type_name"}}
      [] panel = "source" ->
            {{"source_name", "score", "open_issues"}, {"source_name", "score"}}

\* The values of the grouping column, in ascending (str) order.
SortedKeys(panel) ==
    CASE panel = "domain" -> <<"Finance", "Regulatory", "Risk">>
      [] panel = "rule" -> <<"Completeness", "Validation">>
      [] panel = "source" -> <<"AnaCredit", "Budget">>

Scores == {NaN, Num(90), Num(94)}
IssueCounts == {NaN, Num(5)}

Range(seq) == {seq[i] : i \in DOMAIN seq}

AggRows(panel, cols) ==
    [key : Range(SortedKeys(panel)) \cup {NULL},
     value : IF ValueCol(panel) \in cols THEN Scores ELSE {NaN},
     issues : IF "open_issues" \in cols THEN IssueCounts ELSE {NaN}]

\* The tables that reach the aggregation: they have rows.
AggTables(panel, cols) ==
    UNION {[1..n -> AggRows(panel, cols)] : n \in 1..MaxRows}

\* Series.skipna: the non-null values.
dropna(vals) == SelectSeq(vals, LAMBDA v : ~isna(v))

RECURSIVE SumSeq(_)
SumSeq(vals) ==
    IF vals = <<>> THEN Num(0) ELSE QAdd(Head(vals), SumSeq(Tail(vals)))

\* GroupBy.mean(): the mean of the non-null values, NaN when there is none.
mean(vals) ==
    LET nn == dropna(vals)
        s == SumSeq(nn)
    IN  IF nn = <<>> THEN NaN ELSE Q(s.num, s.den * Len(nn))

\* GroupBy.sum(): the sum of the non-null values, 0 when there is none.
sum(vals) == SumSeq(dropna(vals))

RowsOf(df, k) == SelectSeq(df, LAMBDA r : r.key = k)

ColumnOf(rows, col) == [i \in 1..Len(rows) |-> rows[i][col]]

\* groupby(..., dropna=False): the null key gets a group of its own, last.
GroupKeysKeepNull(df, panel) ==
    SelectSeq(SortedKeys(panel), LAMBDA k : \E i \in DOMAIN df : df[i].key = k)
        \o (IF \E i \in DOMAIN df : df[i].key = NULL THEN <<NULL>> ELSE <<>>)

\* groupby(key): one group per key value in the rows, in ascending order of
\* the key (sort=True); rows whose key is null are in no group (dropna=True).
group_keys(df, panel) ==
    SelectSeq(SortedKeys(panel), LAMBDA k : \E i \in DOMAIN df : df[i].key = k)

\* groupby(key)[value].mean().reset_index(), and for the per-source chart
\* groupby(key).agg({"score": "mean", "open_issues": "sum"}).reset_index().
groupby_agg(df, panel) ==
    LET ks == group_keys(df, panel)
    IN  [i \in 1..Len(ks) |->
            [key |-> ks[i],
             value |-> mean(ColumnOf(RowsOf(df, ks[i]), "value")),
             issues |-> IF panel = "source"
                        THEN sum(ColumnOf(RowsOf(df, ks[i]), "issues"))
                        ELSE NaN]]

\* The place of a row in a frame sorted so far: behind every row whose value
\* is not above its own.
RECURSIVE InsertRow(_, _)
InsertRow(sorted, r) ==
    IF sorted = <<>> THEN <<r>>
    ELSE IF QLeq(Head(sorted).value, r.value)
    THEN <<Head(sorted)>> \o InsertRow(Tail(sorted), r)
    ELSE <<r>> \o sorted

RECURSIVE SortRows(_)
SortRows(rows) ==
    IF rows = <<>> THEN <<>>
    ELSE InsertRow(SortRows(SubSeq(rows, 1, Len(rows) - 1)), rows[Len(rows)])

Reverse(seq) == [i \in 1..Len(seq) |-> seq[Len(seq) + 1 - i]]

\* sort_values(..., ascending=False)
SortDescending(frame) ==
    Reverse(SortRows(SelectSeq(frame, LAMBDA r : ~isna(r.value))))
        \o SelectSeq(frame, LAMBDA r : isna(r.value))

\* sort_values(value, ascending=True): the rows with a value in ascending
\* order, rows of equal value in the order they had, then the rows whose
\* value is NaN (na_position="last").
sort_values(frame) ==
    SortRows(SelectSeq(frame, LAMBDA r : ~isna(r.value)))
        \o SelectSeq(frame, LAMBDA r : isna(r.value))

\* The frame the chart is drawn from.
aggregate(df, panel) == sort_values(groupby_agg(df, panel))

\* The column the aggregation reads without testing for it: the value column
\* of the domain and rule charts (KeyError), and open_issues, which the
\* per-source chart asks agg() to count when the table does not have it.
AggRaises(panel, cols) ==
    IF panel = "source" THEN "open_issues" \notin cols
    ELSE ValueCol(panel) \notin cols

AggInit ==
    /\ agg_panel \in AggPanels
    /\ agg_columns \in PanelColumns(agg_panel)
    /\ agg_df \in AggTables(agg_panel, agg_columns)
    /\ agg_out = <<>>
    /\ agg_pc = "loaded"
    /\ EnvInit
    /\ ReviewIdle
    /\ DashIdle
    /\ GlyphIdle
    /\ CallIdle
    /\ CardIdle
    /\ ColorIdle
    /\ MatchIdle
    /\ LabelIdle

\* The chart's branch: aggregate, sort, draw.
Aggregate ==
    /\ agg_pc = "loaded"
    /\ IF AggRaises(agg_panel, agg_columns)
       THEN /\ agg_pc' = "raised"
            /\ UNCHANGED agg_out
       ELSE /\ agg_pc' = "charted"
            /\ agg_out' = aggregate(agg_df, agg_panel)
    /\ UNCHANGED <<agg_panel, agg_columns, agg_df>>
    /\ UNCHANGED nonAgg

\* The same aggregation applied to the frame it produced.
Reaggregate ==
    /\ agg_pc = "charted"
    /\ agg_df' = agg_out
    /\ agg_out' = aggregate(agg_out, agg_panel)
    /\ agg_pc' = "again"
    /\ UNCHANGED <<agg_panel, agg_columns>>
    /\ UNCHANGED nonAgg

AggNext ==
    \/ Aggregate
    \/ Reaggregate

AggSpec == AggInit /\ [][AggNext]_vars

(***************************************************************************)
(* Claims about the aggregation step (checked under AggSpec).              *)
(***************************************************************************)

\* The categories of a table: the non-null values of its grouping column.
CategoriesOf(df) == {df[i].key : i \in DOMAIN df} \ {NULL}

\* C15: a category whose rows hold no non-null value is left out of the
\* series: it is there neither as zero nor as a null entry.
C15_EmptyCategoryExcluded ==
    agg_pc = "charted"
    => \A k \in CategoriesOf(agg_df) :
        (\A j \in DOMAIN agg_df : agg_df[j].key = k => isna(agg_df[j].value))
        => \A i \in DOMAIN agg_out : agg_out[i].key # k

\* C16: rows whose grouping key is null are dropped: the series has one
\* entry per non-null key and none for the null key, and each entry is
\* computed from the rows of its own key alone.
C16_NullKeysDropped ==
    agg_pc = "charted"
    => /\ \A i \in DOMAIN agg_out : agg_out[i].key # NULL
       /\ {agg_out[i].key : i \in DOMAIN agg_out} = CategoriesOf(agg_df)
       /\ Len(agg_out) = Cardinality(CategoriesOf(agg_df))
       /\ \A i \in DOMAIN agg_out :
            LET own == SelectSeq(agg_df, LAMBDA r : r.key = agg_out[i].key)
            IN  /\ agg_out[i].value = mean(ColumnOf(own, "value"))
                /\ agg_panel = "source"
                    => agg_out[i].issues = sum(ColumnOf(own, "issues"))

\* C16 witness: a series drawn from a table in which a row with a score has
\* a null key.
C16_Witness ==
    /\ agg_pc = "charted"
    /\ \E j \in DOMAIN agg_df : agg_df[j].key = NULL /\ ~isna(agg_df[j].value)
    /\ Len(agg_out) >= 2

\* value[i] <= value[i+1] along a frame.
Ascending(frame) ==
    \A i \in 1..(Len(frame) - 1) : QLeq(frame[i].value, frame[i + 1].value)

\* C17: the series handed to the chart is in ascending order of its value.
C17_SortedAscending ==
    agg_pc = "charted" => Ascending(agg_out)

\* Every row has a category, and no two rows the same one.
OneRowPerCategory(df) ==
    /\ \A i \in DOMAIN df : df[i].key # NULL
    /\ \A i, j \in DOMAIN df : i # j => df[i].key # df[j].key

HasValues(df, panel) ==
    \A i \in DOMAIN df :
        /\ ~isna(df[i].value)
        /\ panel = "source" => ~isna(df[i].issues)

CardColumns == {"correction_id", "decision_status", "decided_by", "decided_at"}

\* A row as iterrows() hands it over: its index label and its cells. The
\* view may lack any of the columns.
CardRows ==
    {[name |-> 0,
      cells |-> [c \in cols |->
                    CASE c = "correction_id" -> id
                      [] c = "decision_status" -> st
                      [] c = "decided_by" -> by
                      [] c = "decided_at" -> at]] :
        cols \in SUBSET CardColumns, id \in CorrIds,
        st \in Statuses \union {NULL}, by \in {NULL, "alice"},
        at \in {isoformat(0)}}

NoLine == [status |-> "", decided_by |-> "", decided_at |-> ""]
NoCard == [drawn |-> FALSE, buttons |-> {}, line |-> NoLine]

\* The four widgets of a pending card; Ignorer has no handler.
CardButtons(correction_id) ==
    {[button |-> btn, correction_id |-> correction_id,
      calls |-> IF btn = "skip" THEN "none" ELSE ButtonStatus(btn)] :
        btn \in Buttons}

\* The status line of a decided card.
CardLine(row, status) ==
    [status |-> status,
     decided_by |-> RowGet(row, "decided_by", "N/A"),
     decided_at |-> RowGet(row, "decided_at", "N/A")]

\* The four buttons on every card, whatever the status.
render_card_always_buttons(row, idx) ==
    [drawn |-> TRUE,
     buttons |-> CardButtons(RowGet(row, "correction_id", idx)),
     line |-> IF CardStatus(row) = "pending" THEN NoLine
              ELSE CardLine(row, CardStatus(row))]

\* The "Action buttons" block of the card.
render_card(row, idx) ==
    LET status == CardStatus(row)
        correction_id == RowGet(row, "correction_id", idx)
    IN  IF status = "pending"
        THEN [drawn |-> TRUE, buttons |-> CardButtons(correction_id),
              line |-> NoLine]
        ELSE [drawn |-> TRUE, buttons |-> {}, line |-> CardLine(row, status)]

CardInit ==
    /\ EnvInit
    /\ card_row \in CardRows
    /\ card = NoCard
    /\ ReviewIdle
    /\ DashIdle
    /\ GlyphIdle
    /\ AggIdle
    /\ CallIdle
    /\ ColorIdle
    /\ MatchIdle
    /\ LabelIdle

RenderCard ==
    /\ ~card.drawn
    /\ card' = render_card(card_row.cells, card_row.name)
    /\ UNCHANGED card_row
    /\ UNCHANGED nonCard

CardNext == RenderCard

CardSpec == CardInit /\ [][CardNext]_vars

\* The statuses a button of the card would pass to update_correction_status.
CardCalls == {b.calls : b \in card.buttons} \ {"none"}

\* C25: the card offers Accepter / Rejeter / Modifier only for a row
\* displayed as pending, a row without a decision_status column counting as
\* pending; for a row displayed as validated, rejected or overwritten it
\* shows the decision line and nothing that calls update_correction_status.
C25_ActionsOnlyWhenPending ==
    card.drawn =>
        LET row == card_row.cells
            has_status == "decision_status" \in DOMAIN row
        IN  /\ CardCalls # {} => (~has_status \/ row.decision_status = "pending")
            /\ (~has_status \/ row.decision_status = "pending")
               => CardCalls = {"validated", "rejected", "overwritten"}
            /\ (has_status /\ row.decision_status \in Statuses \ {"pending"})
               => /\ card.buttons = {}
                  /\ card.line.status = row.decision_status

\* C25 witness: a card drawn for a validated row, with its decision line and
\* no button.
C25_Witness ==
    /\ card.drawn
    /\ "decision_status" \in DOMAIN card_row.cells
    /\ card_row.cells.decision_status = "validated"
    /\ card.line.status = "validated"
    /\ card.buttons = {}

\* ---------------------------------------------------------------------
\* Score colours of the matching viewer (app_11.py)
\* ---------------------------------------------------------------------

\* Scores run from -MaxScore + 100 - 1 .. MaxScore: below 0 and above 100.
MaxScore == 120

Scores100 == (100 - MaxScore - 1)..MaxScore

\* The first branch with > instead of >=: 85 falls into the second colour.
get_score_color_strict(score) ==
    IF score > 85 THEN "#27ae60"
    ELSE IF score >= 75 THEN "#f1c40f"
    ELSE IF score >= 60 THEN "#e67e22"
    ELSE IF score >= 40 THEN "#e74c3c"
    ELSE "#c0392b"

get_score_color(score) ==
    IF score >= 85 THEN "#27ae60"
    ELSE IF score >= 75 THEN "#f1c40f"
    ELSE IF score >= 60 THEN "#e67e22"
    ELSE IF score >= 40 THEN "#e74c3c"
    ELSE "#c0392b"

get_score_bg_color(score) ==
    IF score >= 85 THEN "#d4edda"
    ELSE IF score >= 75 THEN "#fff3cd"
    ELSE IF score >= 60 THEN "#ffeaa7"
    ELSE IF score >= 40 THEN "#f8d7da"
    ELSE "#f5c6cb"

ColorInit ==
    /\ EnvInit
    /\ sc_score \in Scores100
    /\ sc_color = "none"
    /\ sc_bg = "none"
    /\ ReviewIdle
    /\ DashIdle
    /\ GlyphIdle
    /\ AggIdle
    /\ CallIdle
    /\ CardIdle
    /\ MatchIdle
    /\ LabelIdle

ScoreColor ==
    /\ sc_color = "none"
    /\ sc_color' = get_score_color(sc_score)
    /\ UNCHANGED <<sc_score, sc_bg>>
    /\ UNCHANGED nonColor

ScoreBgColor ==
    /\ sc_bg = "none"
    /\ sc_bg' = get_score_bg_color(sc_score)
    /\ UNCHANGED <<sc_score, sc_color>>
    /\ UNCHANGED nonColor

ColorNext == ScoreColor \/ ScoreBgColor

ColorSpec == ColorInit /\ [][ColorNext]_vars

\* The five buckets of the thresholds 85, 75, 60, 40, best first, with the
\* text colour and the background colour of each.
Bands ==
    <<[from |-> 85, color |-> "#27ae60", bg |-> "#d4edda"],
      [from |-> 75, color |-> "#f1c40f", bg |-> "#fff3cd"],
      [from |-> 60, color |-> "#e67e22", bg |-> "#ffeaa7"],
      [from |-> 40, color |-> "#e74c3c", bg |-> "#f8d7da"],
      [from |-> 100 - MaxScore - 1, color |-> "#c0392b", bg |-> "#f5c6cb"]>>

InBand(score, i) ==
    /\ score >= Bands[i].from
    /\ i > 1 => score < Bands[i - 1].from

\* C22: every integer score, below 0 and above 100 included, lies in exactly
\* one of the five buckets score >= 85, 75..84, 60..74, 40..59, below 40;
\* get_score_color returns that bucket's colour and get_score_bg_color that
\* bucket's background colour.
C22_FiveBuckets ==
    /\ Cardinality({i \in 1..5 : InBand(sc_score, i)}) = 1
    /\ \A i \in 1..5 :
        InBand(sc_score, i)
        => /\ sc_color \in {"none", Bands[i].color}
           /\ sc_bg \in {"none", Bands[i].bg}

\* C22 witness: a negative score with both colours of the lowest bucket.
C22_Witness ==
    /\ sc_score < 0
    /\ sc_color = "#c0392b"
    /\ sc_bg = "#f5c6cb"

\* ---------------------------------------------------------------------
\* The functions that talk to the backend, one call at a time
\* ---------------------------------------------------------------------

\* tables of get_table_list(), in its order.
TableList ==
    <<"data_source", "dq_rule_type", "dq_rule", "dq_field_ref",
      "dq_run", "dq_measurement", "dq_field_check", "dq_issue_detail",
      "dq_correction", "dq_audit_log",
      "mv_dashboard_summary", "mv_correction_review_queue",
      "mv_source_health_score", "mv_field_quality_trend",
      "mv_rule_effectiveness">>

\* get_table_list(): [] without a client.
get_table_list(client) == IF client THEN TableList ELSE <<>>

\* The loaders with a fixed table, and the table each one selects from.
FixedLoaders ==
    {"load_dashboard_summary", "load_correction_queue", "load_source_health",
     "load_issues", "load_data_sources"}

LoaderTable(fn) ==
    CASE fn = "load_dashboard_summary" -> "mv_dashboard_summary"
      [] fn = "load_correction_queue" -> "mv_correction_review_queue"
      [] fn = "load_source_health" -> "mv_source_health_score"
      [] fn = "load_issues" -> "dq_issue_detail"
      [] fn = "load_data_sources" -> "data_source"

AllLoaders == FixedLoaders \union {"load_table_data"}

Tabs == {"render_storage_tab", "render_upload_tab"}

Functions == AllLoaders \union {"update_correction_status"} \union Tabs

NoArgs == [none |-> TRUE]

\* The arguments of a call; for a tab, the widgets its run reads. A button
\* can be clicked only if the previous run drew it: Uploader needs a file
\* and a client, Importer needs a CSV file. The import's target is an entry
\* of get_table_list(), None (NULL) when the list is empty.
ArgsOf(fn, client) ==
    CASE fn \in FixedLoaders -> {NoArgs}
      [] fn = "load_table_data" ->
            {[table_name |-> TableList[i]] : i \in 1..Len(TableList)}
      [] fn = "update_correction_status" ->
            {[correction_id |-> id, status |-> st, user |-> u] :
                id \in CorrIds, st \in Statuses \ {"pending"}, u \in Reviewers}
      [] fn = "render_storage_tab" -> {[bucket_name |-> "uploads"]}
      [] fn = "render_upload_tab" ->
            {a \in [bucket : {"uploads"}, uploaded_file : BOOLEAN,
                    csv_file : BOOLEAN, clicked : {"none", "upload", "import"},
                    target_table :
                        IF client THEN {TableList[1], TableList[Len(TableList)]}
                        ELSE {NULL}] :
                /\ a.clicked = "upload" => (a.uploaded_file /\ client)
                /\ a.clicked = "import" => a.csv_file}

Request(op, target) == [op |-> op, target |-> target]

\* The import with its "if supabase:" left out.
RequestsNoGuard(fn, args, client) ==
    CASE fn \in FixedLoaders -> <<Request("select", LoaderTable(fn))>>
      [] fn = "load_table_data" -> <<Request("select", args.table_name)>>
      [] fn = "update_correction_status" ->
            <<Request("update", "dq_correction"),
              Request("insert", "dq_audit_log")>>
      [] fn = "render_storage_tab" ->
            <<Request("storage.list", args.bucket_name)>>
      [] fn = "render_upload_tab" ->
            IF args.uploaded_file /\ client /\ args.clicked = "upload"
            THEN <<Request("storage.upload", args.bucket)>>
            ELSE IF args.csv_file /\ args.clicked = "import"
            THEN <<Request("insert", args.target_table)>>
            ELSE <<>>

\* The backend requests a call issues past its "if not supabase" return, if
\* none of them raises, in order.
Requests(fn, args, client) ==
    CASE fn \in FixedLoaders -> <<Request("select", LoaderTable(fn))>>
      [] fn = "load_table_data" -> <<Request("select", args.table_name)>>
      [] fn = "update_correction_status" ->
            <<Request("update", "dq_correction"),
              Request("insert", "dq_audit_log")>>
      [] fn = "render_storage_tab" ->
            <<Request("storage.list", args.bucket_name)>>
      [] fn = "render_upload_tab" ->
            IF args.uploaded_file /\ client /\ args.clicked = "upload"
            THEN <<Request("storage.upload", args.bucket)>>
            ELSE IF args.csv_file /\ args.clicked = "import" /\ client
            THEN <<Request("insert", args.target_table)>>
            ELSE <<>>

\* "if not supabase: return ..." at the top of every function but
\* render_upload_tab, which tests the client where it uses it.
EarlyReturn(fn, client) == ~client /\ fn # "render_upload_tab"

\* What that return hands back; the storage tab just ends its run.
NoClientReturn(fn) ==
    CASE fn \in AllLoaders -> "empty"
      [] fn = "update_correction_status" -> "False"
      [] fn \in Tabs -> "rendered"

\* The end of the try block, every request done.
Completed(fn) ==
    CASE fn \in AllLoaders -> "table"
      [] fn = "update_correction_status" -> "True"
      [] fn \in Tabs -> "rendered"

\* No except branch: the exception leaves the function.
Propagated(fn) == "Exception"

\* The except branch: st.error(...) and the fallback value.
Recovered(fn) ==
    CASE fn \in AllLoaders -> "empty"
      [] fn = "update_correction_status" -> "False"
      [] fn \in Tabs -> "rendered"

CallInit ==
    /\ EnvInit
    /\ api_fn \in Functions
    /\ api_args \in ArgsOf(api_fn, has_client)
    /\ api_pc = "start"
    /\ api_log = <<>>
    /\ api_ret = "none"
    /\ ReviewIdle
    /\ DashIdle
    /\ GlyphIdle
    /\ AggIdle
    /\ CardIdle
    /\ ColorIdle
    /\ MatchIdle
    /\ LabelIdle

\* The function up to its try block.
Enter ==
    /\ api_pc = "start"
    /\ IF EarlyReturn(api_fn, has_client)
       THEN /\ api_ret' = NoClientReturn(api_fn)
            /\ api_pc' = "done"
       ELSE /\ api_pc' = "try"
            /\ UNCHANGED api_ret
    /\ UNCHANGED <<api_fn, api_args, api_log>>
    /\ UNCHANGED nonCall

\* One ....execute() of the try block, or its end when none is left.
Execute ==
    /\ api_pc = "try"
    /\ LET plan == Requests(api_fn, api_args, has_client)
           k == Len(api_log) + 1
       IN  IF k > Len(plan)
           THEN /\ api_ret' = Completed(api_fn)
                /\ api_pc' = "done"
                /\ UNCHANGED api_log
           ELSE \E raises \in BOOLEAN :
                /\ api_log' = Append(api_log,
                        [op |-> plan[k].op, target |-> plan[k].target,
                         raised |-> raises])
                /\ IF raises
                   THEN /\ api_ret' = Recovered(api_fn)
                        /\ api_pc' = "done"
                   ELSE UNCHANGED <<api_ret, api_pc>>
    /\ UNCHANGED <<api_fn, api_args>>
    /\ UNCHANGED nonCall

CallNext == Enter \/ Execute

CallSpec == CallInit /\ [][CallNext]_vars

Raised == \E i \in 1..Len(api_log) : api_log[i].raised

\* C21: an exception raised by a backend request never leaves the function:
\* no call ends with an exception, a loader whose request raised returns an
\* empty table, and update_correction_status returns False when its update
\* or its insert raised.
C21_ExceptionsRecovered ==
    /\ api_ret # "Exception"
    /\ (api_pc = "done" /\ Raised)
       => /\ api_fn \in AllLoaders => api_ret = "empty"
          /\ api_fn = "update_correction_status" => api_ret = "False"

\* C21 witness: update_correction_status has returned False after its update
\* went through and its insert raised.
C21_Witness ==
    /\ api_fn = "update_correction_status"
    /\ api_pc = "done"
    /\ Len(api_log) = 2
    /\ ~api_log[1].raised
    /\ api_log[2].raised
    /\ api_ret = "False"

\* C26: without a client nothing is sent to the backend: no query, no
\* update, no insert, no storage request, by any function or tab; the
\* loaders return an empty table and update_correction_status returns False.
C26_NoClientNoRequest ==
    ~has_client
    => /\ api_log = <<>>
       /\ api_pc = "done"
          => /\ api_fn \in AllLoaders => api_ret = "empty"
             /\ api_fn = "update_correction_status" => api_ret = "False"
             /\ api_fn \in Tabs => api_ret = "rendered"

\* C26 witness: the upload tab has run without a client, a CSV file chosen
\* and its import button clicked, and has sent nothing.
C26_Witness ==
    /\ ~has_client
    /\ api_fn = "render_upload_tab"
    /\ api_args.csv_file
    /\ api_args.clicked = "import"
    /\ api_pc = "done"
    /\ api_log = <<>>

\* ---------------------------------------------------------------------
\* The matching viewer (app_11.py, view_matching)
\* ---------------------------------------------------------------------

\* CV_FILES_MAPPING: (prenom, nom) -> file.
CV_FILES_MAPPING ==
    {<<<<"Marie", "DUPONT">>, "CV_01_Marie_Dupont.pdf">>,
     <<<<"Sophie", "MARTIN">>, "CV_02_Sophie_Martin.pdf">>,
     <<<<"Thomas", "BERNARD">>, "CV_03_Thomas_Bernard.pdf">>,
     <<<<"Alexandre", "PETIT">>, "CV_04_Alexandre_Petit.pdf">>,
     <<<<"Claire", "LEROY">>, "CV_05_Claire_Leroy.pdf">>,
     <<<<"Emma", "GARCIA">>, "CV_06_Emma_Garcia.pdf">>,
     <<<<"Jean-Pierre", "MULLER">>, "CV_07_Jean_Pierre_Muller.pdf">>}

\* CV_FILES_MAPPING.get((prenom, nom), None)
get_cv_file(prenom, nom) ==
    IF \E e \in CV_FILES_MAPPING : e[1] = <<prenom, nom>>
    THEN (CHOOSE e \in CV_FILES_MAPPING : e[1] = <<prenom, nom>>)[2]
    ELSE NULL

\* The candidates and models of the workbook: two with a CV file, one
\* without; one row per candidate and model at most.
Candidates ==
    {<<"Marie", "DUPONT">>, <<"Jean-Pierre", "MULLER">>, <<"Paul", "DURAND">>}

Models == {"gpt", "mistral"}

MatchRow(cand, model) ==
    [prenom |-> cand[1], nom |-> cand[2], model |-> model,
     score |-> IF model = "gpt" THEN "82" ELSE "58"]

Workbooks == SUBSET {MatchRow(cand, model) : cand \in Candidates, model \in Models}

\* models = ['Tous'] + sorted(df_matching['Model'].unique().tolist())
ModelOptions(df) == {"Tous"} \union {row.model : row \in df}

\* df_filtered: the rows drawn under the model filter.
FilterByModel(df, model_filter) ==
    IF model_filter # "Tous" THEN {row \in df : row.model = model_filter}
    ELSE df

\* The scores of every model, whatever the filter.
model_scores_all_models(df, row, model_filter) ==
    LET candidate_all_models ==
            {m_row \in df : m_row.prenom = row.prenom /\ m_row.nom = row.nom}
    IN  [m \in {m_row.model : m_row \in candidate_all_models} |->
            (CHOOSE m_row \in candidate_all_models : m_row.model = m).score]

\* model_scores of the click handler: the candidate's rows, narrowed to the
\* model filter unless it is 'Tous', keyed by model.
model_scores(df, row, model_filter) ==
    LET candidate_all_models ==
            FilterByModel(
                {m_row \in df : m_row.prenom = row.prenom /\ m_row.nom = row.nom},
                model_filter)
    IN  [m \in {m_row.model : m_row \in candidate_all_models} |->
            (CHOOSE m_row \in candidate_all_models : m_row.model = m).score]

\* The record the click handler stores.
Selection(df, row, model_filter) ==
    [kind |-> "dict",
     prenom |-> row.prenom,
     nom |-> row.nom,
     cv_file |-> get_cv_file(row.prenom, row.nom),
     model_scores |-> model_scores(df, row, model_filter)]

MatchInit ==
    /\ EnvInit
    /\ mt_df \in Workbooks
    /\ mt_filter = "Tous"
    /\ mt_selected = None
    /\ ReviewIdle
    /\ DashIdle
    /\ GlyphIdle
    /\ AggIdle
    /\ CallIdle
    /\ CardIdle
    /\ ColorIdle
    /\ LabelIdle

\* The user picks a model in the selectbox; the script reruns.
SelectModel(f) ==
    /\ f \in ModelOptions(mt_df)
    /\ f # mt_filter
    /\ mt_filter' = f
    /\ UNCHANGED <<mt_df, mt_selected>>
    /\ UNCHANGED nonMatch

\* The user clicks the CV button of a drawn row; the button exists only if
\* get_cv_file found a file.
ClickCV(row) ==
    /\ row \in FilterByModel(mt_df, mt_filter)
    /\ Truthy(get_cv_file(row.prenom, row.nom))
    /\ mt_selected' = Selection(mt_df, row, mt_filter)
    /\ UNCHANGED <<mt_df, mt_filter>>
    /\ UNCHANGED nonMatch

MatchNext ==
    \/ \E f \in {"Tous"} \union Models : SelectModel(f)
    \/ \E row \in mt_df : ClickCV(row)

MatchSpec == MatchInit /\ [][MatchNext]_vars

\* The models a filter value lets through.
AllowedModels(model_filter) ==
    IF model_filter = "Tous" THEN Models ELSE {model_filter}

\* C27: selected_candidate is None or a record whose cv_file is the
\* CV_FILES_MAPPING entry of its (prenom, nom); a click stores model_scores
\* of models the filter of that moment allows only; and once a candidate is
\* selected the state never goes back to None.
C27_SelectedCandidate ==
    /\ [](mt_selected # None
          => <<<<mt_selected.prenom, mt_selected.nom>>, mt_selected.cv_file>>
                \in CV_FILES_MAPPING)
    /\ [][/\ mt_selected' # mt_selected
             => DOMAIN mt_selected'.model_scores \subseteq AllowedModels(mt_filter)
          /\ mt_selected # None => mt_selected' # None]_vars

\* C27 witness: a candidate selected under a one-model filter, with the
\* score of that model only although the workbook has another model's row
\* for the same candidate.
C27_Witness ==
    /\ mt_selected # None
    /\ mt_filter # "Tous"
    /\ DOMAIN mt_selected.model_scores = {mt_filter}
    /\ \E row \in mt_df :
        /\ row.prenom = mt_selected.prenom
        /\ row.nom = mt_selected.nom
        /\ row.model # mt_filter

\* ---------------------------------------------------------------------
\* The candidate details of the parsed CVs (app_11.py, view_parsed_cvs)
\* ---------------------------------------------------------------------

\* Strings are sequences of characters. The names of the table: plain ones
\* and ones with a space inside.
Prenoms == {<<"a">>, <<"b">>, <<"a", " ", "b">>}
Noms == {<<"c">>, <<"b", " ", "c">>}

CvRows == [prenom : Prenoms, nom : Noms]

\* The filtered tables: one or two rows, in order.
CvTables == {<<row>> : row \in CvRows} \union (CvRows \X CvRows)

\* f"{x['prenom']} {x['nom']}"
Label(row) == row.prenom \o <<" ">> \o row.nom

\* candidat_options
candidat_options(df) == [i \in 1..Len(df) |-> Label(df[i])]

\* str.split(' ', 1): cut at the first space, the whole string if there is
\* none.
Split1(chars) ==
    IF \E i \in 1..Len(chars) : chars[i] = " "
    THEN LET i == CHOOSE k \in 1..Len(chars) :
                    /\ chars[k] = " "
                    /\ \A j \in 1..(k - 1) : chars[j] # " "
         IN  <<SubSeq(chars, 1, i - 1), SubSeq(chars, i + 1, Len(chars))>>
    ELSE <<chars>>

\* df_filtered[(prenom == parts[0]) & (nom == parts[1])].iloc[0]
Lookup(df, selected_candidat) ==
    LET parts == Split1(selected_candidat)
        hits == IF Len(parts) < 2 THEN {}
                ELSE {i \in 1..Len(df) :
                        df[i].prenom = parts[1] /\ df[i].nom = parts[2]}
    IN  IF hits = {} THEN [kind |-> "IndexError"]
        ELSE [kind |-> "row",
              row |-> df[CHOOSE i \in hits : \A j \in hits : i <= j]]

NotFound == [kind |-> "none"]

LabelInit ==
    /\ EnvInit
    /\ lb_df \in CvTables
    /\ lb_label = <<>>
    /\ lb_found = NotFound
    /\ lb_pc = "listed"
    /\ ReviewIdle
    /\ DashIdle
    /\ GlyphIdle
    /\ AggIdle
    /\ CallIdle
    /\ CardIdle
    /\ ColorIdle
    /\ MatchIdle

\* The selectbox holds one of the labels (the first one until the user
\* picks another).
SelectCandidat(i) ==
    /\ lb_pc = "listed"
    /\ i \in 1..Len(lb_df)
    /\ lb_label' = candidat_options(lb_df)[i]
    /\ lb_pc' = "selected"
    /\ UNCHANGED <<lb_df, lb_found>>
    /\ UNCHANGED nonLabel

\* if selected_candidat: ... candidat_data = ....iloc[0]
ShowDetails ==
    /\ lb_pc = "selected"
    /\ lb_label # <<>>
    /\ lb_found' = Lookup(lb_df, lb_label)
    /\ lb_pc' = "shown"
    /\ UNCHANGED <<lb_df, lb_label>>
    /\ UNCHANGED nonLabel

LabelNext ==
    \/ \E i \in 1..2 : SelectCandidat(i)
    \/ ShowDetails

LabelSpec == LabelInit /\ [][LabelNext]_vars

\* C28: the selection round-trips: once the details of the selected label
\* are looked up, the lookup is not empty, and for every row of the table
\* with that label the row found has the same prenom and nom.
C28_LabelRoundTrip ==
    lb_pc = "shown"
    => /\ lb_found.kind = "row"
       /\ \A i \in 1..Len(lb_df) :
            Label(lb_df[i]) = lb_label
            => /\ lb_found.row.prenom = lb_df[i].prenom
               /\ lb_found.row.nom = lb_df[i].nom

====
